---- MODULE Spec2Model ----
(***************************************************************************)
(* Model of storage_audit.py: the recursive directory scanner               *)
(* (scan_directory), the report writer (print_scan_results), the size       *)
(* formatter (storage_repr) and the driver (main).                          *)
(*                                                                          *)
(* The filesystem is an input: a tree of entries.  An entry is a record     *)
(*   [name, kind, err, size, entries]                                       *)
(* kind is "dir" (os.path.isdir is true) or "file" (anything else); err is  *)
(* the exception os.listdir (for a dir) or os.path.getsize (for a file)     *)
(* raises on it, "none" when the call succeeds; size is what getsize        *)
(* returns; entries is what listdir returns, in listing order.              *)
(***************************************************************************)
EXTENDS Integers, Sequences, FiniteSets, TLC

VARIABLES
    fs,            \* the entry at the path given to main
    threshold,     \* the threshold given to main
    pc,            \* position of main: "start", "scanned", "done", "crashed"
    scan_results,  \* main's scan_results (the dictionary tree)
    log_file,      \* the lines written to the report file
    exit_status,   \* value returned by main, -1 while it has not returned
    raised,        \* exception that left main uncaught, "none" otherwise
    num_bytes,     \* argument of a direct storage_repr call
    repr_out       \* its result

vars == <<fs, threshold, pc, scan_results, log_file, exit_status, raised,
          num_bytes, repr_out>>

----------------------------------------------------------------------------
(* Bounds of the explored inputs. *)

MaxEntries == 4      \* entries below the root, over all depths
MaxSize == 2         \* largest file size
MaxThreshold == 3    \* largest threshold

Names == <<"a", "b", "c">>
Sizes == 0 .. MaxSize
Thresholds == 0 .. MaxThreshold

\* Exceptions os.listdir can raise on a directory, os.path.getsize on a file.
DirErrs == {"PermissionError", "FileNotFoundError", "OSError"}
FileErrs == {"FileNotFoundError"}

----------------------------------------------------------------------------
(* The input trees. *)

FileEntry(n, e, s) ==
    [name |-> n, kind |-> "file", err |-> e, size |-> s, entries |-> <<>>]

DirEntry(n, e, es) ==
    [name |-> n, kind |-> "dir", err |-> e, size |-> 0, entries |-> es]

RECURSIVE EntriesOfSize(_, _), Forests(_, _)

\* The entries called nm that, with everything below them, make up exactly
\* n entries.  A directory whose listing fails shows nothing below it.
EntriesOfSize(n, nm) ==
    IF n = 0 THEN {}
    ELSE (IF n = 1
          THEN {FileEntry(nm, "none", s) : s \in Sizes}
               \cup {FileEntry(nm, e, 0) : e \in FileErrs}
               \cup {DirEntry(nm, e, <<>>) : e \in DirErrs}
          ELSE {})
         \cup {DirEntry(nm, "none", es) : es \in Forests(n - 1, 1)}

\* The listings that hold exactly n entries over all depths, from the entry
\* at position pos on.  The entry at position i is called Names[i]: the scan
\* only copies names, so which name sits where is immaterial, while every
\* order of kinds and sizes occurs.
Forests(n, pos) ==
    IF n = 0 THEN {<<>>}
    ELSE IF pos > Len(Names) THEN {}
    ELSE UNION {
           LET firsts == EntriesOfSize(k, Names[pos])
               rests == Forests(n - k, pos + 1)
           IN  {<<p[1]>> \o p[2] : p \in firsts \X rests}
           : k \in 1 .. n }

Roots ==
    {DirEntry("root", "none", es) :
         es \in UNION {Forests(n, 1) : n \in 0 .. MaxEntries}}
    \cup {DirEntry("root", e, <<>>) : e \in DirErrs}

----------------------------------------------------------------------------
(* Byte counts for storage_repr: [hi, lo] stands for hi * 10^6 + lo with     *)
(* 0 <= lo < 10^6, so that counts beyond 10^12 stay within machine integers. *)

Big(hi, lo) == [hi |-> hi, lo |-> lo]
ToBig(n) == Big(n \div 1000000, n % 1000000)
Geq(x, y) == x.hi > y.hi \/ (x.hi = y.hi /\ x.lo >= y.lo)

\* round(num_bytes / unit, 2) in hundredths of the unit, that is num_bytes
\* divided by unit / 100 and rounded.  A quotient exactly half way between
\* two hundredths goes where the double nearest to it falls (or to the even
\* neighbour when the double is exact); tie_up is that direction.
\* Round2Lo: unit / 100 = d, a divisor of 10^6.
\* Round2Hi: unit / 100 = d * 10^6.
Round2Lo(n, d, tie_up) ==
    LET q == n.hi * (1000000 \div d) + (n.lo \div d)
        r == n.lo % d
    IN  IF 2 * r > d \/ (2 * r = d /\ tie_up) THEN q + 1 ELSE q

Round2Hi(n, d, tie_up) ==
    LET q == n.hi \div d
        rh == n.hi % d
    IN  IF 2 * rh > d \/ (2 * rh = d /\ (n.lo > 0 \/ tie_up)) THEN q + 1 ELSE q

storage_repr_1024(n, tie_up) ==
    IF Geq(n, Big(1099511, 627776)) THEN [unit |-> "TB", value |-> Round2Hi(n, 10000, tie_up)]
    ELSE IF Geq(n, Big(1073, 741824)) THEN [unit |-> "GB", value |-> Round2Hi(n, 10, tie_up)]
    ELSE IF Geq(n, Big(1, 48576)) THEN [unit |-> "MB", value |-> Round2Lo(n, 10000, tie_up)]
    ELSE IF Geq(n, Big(0, 1024)) THEN [unit |-> "KB", value |-> Round2Lo(n, 10, tie_up)]
    ELSE [unit |-> "bytes", value |-> n.lo]

\* value is in hundredths of the unit, except for "bytes" (the raw count).
storage_repr(n, tie_up) ==
    IF Geq(n, Big(1000000, 0)) THEN [unit |-> "TB", value |-> Round2Hi(n, 10000, tie_up)]
    ELSE IF Geq(n, Big(1000, 0)) THEN [unit |-> "GB", value |-> Round2Hi(n, 10, tie_up)]
    ELSE IF Geq(n, Big(1, 0)) THEN [unit |-> "MB", value |-> Round2Lo(n, 10000, tie_up)]
    ELSE IF Geq(n, Big(0, 1000)) THEN [unit |-> "KB", value |-> Round2Lo(n, 10, tie_up)]
    ELSE [unit |-> "bytes", value |-> n.lo]

----------------------------------------------------------------------------
(* scan_directory *)

NoNode == [name |-> "", files |-> <<>>, num_files |-> 0, total_size |-> 0]

Raise(e) == [exc |-> e, node |-> NoNode]
Return(node) == [exc |-> "none", node |-> node]

isdir(entry) == entry.kind = "dir"

\* files = os.listdir(path), PermissionError replaced by the empty list
ListEntries_propagate(entry) ==
    IF entry.err = "none" THEN [exc |-> "none", files |-> entry.entries]
    ELSE [exc |-> entry.err, files |-> <<>>]

ListEntries(entry) ==
    IF entry.err = "none" THEN [exc |-> "none", files |-> entry.entries]
    ELSE IF entry.err = "PermissionError" THEN [exc |-> "none", files |-> <<>>]
    ELSE [exc |-> entry.err, files |-> <<>>]

getsize(entry) ==
    IF entry.err = "none" THEN [exc |-> "none", size |-> entry.size]
    ELSE [exc |-> entry.err, size |-> 0]

\* the test that puts an entry in found_files
Qualifies_strict(total_size, t) == total_size > t
Qualifies_reversed(total_size, t) == total_size <= t

Qualifies(total_size, t) == total_size >= t

\* directory_size = directory_size + ...
AddSize_overwrite(directory_size, size) == size

AddSize_max(directory_size, size) ==
    IF size > directory_size THEN size ELSE directory_size

AddSize(directory_size, size) == directory_size + size

\* num_files = num_files + 1
CountFile_skip(num_files) == num_files

CountFile(num_files) == num_files + 1

LeafNode(file, file_size) ==
    [name |-> file.name, files |-> <<>>, num_files |-> 0, total_size |-> file_size]

RECURSIVE scan_directory(_, _), scan_loop(_, _, _, _, _, _, _)

\* The for loop of scan_directory from files[i] on, with the locals so far.
scan_loop(path, t, files, i, found_files, num_files, directory_size) ==
    IF i > Len(files)
    THEN Return([name |-> path.name, files |-> found_files,
                 num_files |-> num_files, total_size |-> directory_size])
    ELSE LET file == files[i] IN
         IF isdir(file)
         THEN LET sub == scan_directory(file, t) IN
              IF sub.exc # "none" THEN sub
              ELSE LET subdirectory_results == sub.node IN
                   scan_loop(path, t, files, i + 1,
                       IF Qualifies(subdirectory_results.total_size, t)
                       THEN Append(found_files, subdirectory_results)
                       ELSE found_files,
                       num_files + subdirectory_results.num_files,
                       AddSize(directory_size, subdirectory_results.total_size))
         ELSE LET gs == getsize(file) IN
              IF gs.exc # "none" THEN Raise(gs.exc)
              ELSE LET file_size == gs.size IN
                   scan_loop(path, t, files, i + 1,
                       IF Qualifies(file_size, t)
                       THEN Append(found_files, LeafNode(file, file_size))
                       ELSE found_files,
                       CountFile(num_files),
                       AddSize(directory_size, file_size))

scan_directory(path, t) ==
    LET l == ListEntries(path) IN
    IF l.exc # "none" THEN Raise(l.exc)
    ELSE scan_loop(path, t, l.files, 1, <<>>, 0, 0)

----------------------------------------------------------------------------
(* print_scan_results *)

\* One line of the report file.  The blank line has no name.
Line(indent, name, size, count, word) ==
    [indent |-> indent, name |-> name, size |-> size, count |-> count, word |-> word]

BlankLine == Line(0, "", [unit |-> "", value |-> 0], 0, "")

\* Insert x in the descending list s after every element that is >= x:
\* list.sort is stable, also with reverse=True.
RECURSIVE InsertDesc(_, _)
InsertDesc(s, x) ==
    IF s = <<>> THEN <<x>>
    ELSE IF Head(s).total_size >= x.total_size
         THEN <<Head(s)>> \o InsertDesc(Tail(s), x)
         ELSE <<x>> \o s

RECURSIVE InsertAsc(_, _)
InsertAsc(s, x) ==
    IF s = <<>> THEN <<x>>
    ELSE IF Head(s).total_size <= x.total_size
         THEN <<Head(s)>> \o InsertAsc(Tail(s), x)
         ELSE <<x>> \o s

RECURSIVE SortAsc(_)
SortAsc(files) ==
    IF files = <<>> THEN <<>>
    ELSE InsertAsc(SortAsc(SubSeq(files, 1, Len(files) - 1)), files[Len(files)])

SortNone(files) == files

RECURSIVE Reversed(_)
Reversed(s) == IF s = <<>> THEN <<>> ELSE Append(Reversed(Tail(s)), Head(s))

SortAscReversed(files) == Reversed(SortAsc(files))

\* results['files'].sort(key=lambda x: x['total_size'], reverse=True)
RECURSIVE SortFiles(_)
SortFiles(files) ==
    IF files = <<>> THEN <<>>
    ELSE InsertDesc(SortFiles(SubSeq(files, 1, Len(files) - 1)), files[Len(files)])

\* The writes that end the line of a node: the two if statements.
LineEnd_exclusive(results, indent) ==
    LET size == storage_repr(ToBig(results.total_size), FALSE) IN
    IF results.num_files = 1
    THEN <<Line(indent, results.name, size, 1, "file")>>
    ELSE IF results.num_files > 1
    THEN <<Line(indent, results.name, size, results.num_files, "files")>>
    ELSE <<Line(indent, results.name, size, 0, "")>>

LineEnd(results, indent) ==
    LET size == storage_repr(ToBig(results.total_size), FALSE)
        first == IF results.num_files = 1
                 THEN <<Line(indent, results.name, size, results.num_files, "file")>>
                 ELSE <<>>
    IN  IF results.num_files > 1
        THEN first \o <<Line(indent, results.name, size, results.num_files, "files")>>
        ELSE IF first = <<>>
             THEN <<Line(indent, results.name, size, 0, "")>>
             ELSE first \o <<BlankLine>>

RECURSIVE print_scan_results(_, _), print_files(_, _, _)

print_files_flat(files, i, indent) ==
    IF i > Len(files) THEN <<>>
    ELSE print_scan_results(files[i], indent) \o print_files(files, i + 1, indent)

\* for subdirectory in results['files'], from files[i] on
print_files(files, i, indent) ==
    IF i > Len(files) THEN <<>>
    ELSE print_scan_results(files[i], indent + 1) \o print_files(files, i + 1, indent)

\* The lines print_scan_results writes to file.
print_scan_results(results, indent) ==
    LineEnd(results, indent) \o print_files(SortFiles(results.files), 1, indent)

\* results after the call: every 'files' list it visited is sorted in place.
RECURSIVE Sorted(_)
Sorted(results) ==
    LET files == SortFiles(results.files) IN
    [results EXCEPT !.files = [i \in 1 .. Len(files) |-> Sorted(files[i])]]

----------------------------------------------------------------------------
(* main *)

MainStart ==
    /\ pc = "start"
    /\ scan_directory(fs, threshold).exc = "none"
    /\ scan_results' = scan_directory(fs, threshold).node
    /\ pc' = "scanned"
    /\ UNCHANGED <<fs, threshold, log_file, exit_status, raised, num_bytes, repr_out>>

\* except FileNotFoundError: return 1
MainNotFound ==
    /\ pc = "start"
    /\ scan_directory(fs, threshold).exc = "FileNotFoundError"
    /\ exit_status' = 1
    /\ pc' = "done"
    /\ UNCHANGED <<fs, threshold, scan_results, log_file, raised, num_bytes, repr_out>>

\* any other exception of the scan leaves main
MainUncaught ==
    /\ pc = "start"
    /\ scan_directory(fs, threshold).exc \notin {"none", "FileNotFoundError"}
    /\ raised' = scan_directory(fs, threshold).exc
    /\ pc' = "crashed"
    /\ UNCHANGED <<fs, threshold, scan_results, log_file, exit_status, num_bytes, repr_out>>

\* open the log file, print_scan_results, close, return 0
MainReport ==
    /\ pc = "scanned"
    /\ log_file' = print_scan_results(scan_results, 0)
    /\ scan_results' = Sorted(scan_results)
    /\ exit_status' = 0
    /\ pc' = "done"
    /\ UNCHANGED <<fs, threshold, raised, num_bytes, repr_out>>

Init ==
    /\ fs \in Roots
    /\ threshold \in Thresholds
    /\ pc = "start"
    /\ scan_results = NoNode
    /\ log_file = <<>>
    /\ exit_status = -1
    /\ raised = "none"
    /\ num_bytes = Big(0, 0)
    /\ repr_out = [unit |-> "", value |-> 0]

Next == MainStart \/ MainNotFound \/ MainUncaught \/ MainReport

Spec == Init /\ [][Next]_vars

----------------------------------------------------------------------------
(* storage_repr called on its own *)

ReprHi == {0, 1, 2, 999, 1000, 1001, 999999, 1000000, 1000001, 2345678}
ReprLo == {0, 1, 5, 999, 1000, 1005, 1125, 5000, 500000, 999999}
NoRepr == [unit |-> "", value |-> 0]

InitRepr ==
    /\ num_bytes \in {Big(h, l) : h \in ReprHi, l \in ReprLo}
    /\ repr_out = NoRepr
    /\ fs = DirEntry("root", "none", <<>>)
    /\ threshold = 0
    /\ pc = "repr"
    /\ scan_results = NoNode
    /\ log_file = <<>>
    /\ exit_status = -1
    /\ raised = "none"

Format ==
    /\ pc = "repr"
    /\ repr_out = NoRepr
    /\ \E tie_up \in BOOLEAN : repr_out' = storage_repr(num_bytes, tie_up)
    /\ UNCHANGED <<fs, threshold, pc, scan_results, log_file, exit_status, raised,
                   num_bytes>>

NextRepr == Format

SpecRepr == InitRepr /\ [][NextRepr]_vars

----------------------------------------------------------------------------
(* What the filesystem holds, computed from the input tree alone. *)

RECURSIVE SumSizes(_, _), TrueSize(_), SumCounts(_, _), FileCount(_)

\* Sum of the sizes of the files under an entry that a listing shows.
TrueSize(entry) ==
    IF entry.kind = "file" THEN entry.size
    ELSE IF entry.err # "none" THEN 0
    ELSE SumSizes(entry.entries, Len(entry.entries))

SumSizes(es, n) == IF n = 0 THEN 0 ELSE SumSizes(es, n - 1) + TrueSize(es[n])

\* Number of files under an entry that a listing shows.
FileCount(entry) ==
    IF entry.kind = "file" THEN 1
    ELSE IF entry.err # "none" THEN 0
    ELSE SumCounts(entry.entries, Len(entry.entries))

SumCounts(es, n) == IF n = 0 THEN 0 ELSE SumCounts(es, n - 1) + FileCount(es[n])

\* The entry of a listing that a node of the result tree stands for.
EntryOf(entry, node) ==
    CHOOSE e \in {entry.entries[i] : i \in 1 .. Len(entry.entries)} :
        e.name = node.name

HasEntry(entry, node) ==
    \E i \in 1 .. Len(entry.entries) : entry.entries[i].name = node.name

\* The entries of a tree, the root included, at any depth.
RECURSIVE AllEntries(_)
AllEntries(entry) ==
    {entry} \cup UNION {AllEntries(entry.entries[i]) : i \in 1 .. Len(entry.entries)}

\* The nodes of a result tree, the root included, at any depth.
RECURSIVE AllNodes(_)
AllNodes(node) ==
    {node} \cup UNION {AllNodes(node.files[i]) : i \in 1 .. Len(node.files)}

\* Paths (name sequences from the root) of the nodes of a result tree.
RECURSIVE NodePaths(_, _)
NodePaths(node, prefix) ==
    LET here == Append(prefix, node.name) IN
    {here} \cup UNION {NodePaths(node.files[i], here) : i \in 1 .. Len(node.files)}

\* The entries of a listing whose total size is at least t, in listing order.
RECURSIVE AtLeast(_, _)
AtLeast(es, t) ==
    IF es = <<>> THEN <<>>
    ELSE IF TrueSize(Head(es)) >= t THEN <<Head(es)>> \o AtLeast(Tail(es), t)
         ELSE AtLeast(Tail(es), t)

NamesOf(s) == [i \in 1 .. Len(s) |-> s[i].name]

----------------------------------------------------------------------------
(* C1 *)

RECURSIVE SizesAgree(_, _)
SizesAgree(entry, node) ==
    /\ node.total_size = TrueSize(entry)
    /\ \A i \in 1 .. Len(node.files) :
           /\ HasEntry(entry, node.files[i])
           /\ SizesAgree(EntryOf(entry, node.files[i]), node.files[i])

\* C1: in the tree scan_directory returns, the total_size of the root and of
\* every node below it is the sum of the sizes of all files under the entry
\* the node stands for, the files and directories left out of every 'files'
\* list included.
C1_TotalSize == pc = "scanned" => SizesAgree(fs, scan_results)

\* A scan whose root total counts a file that is in no 'files' list, below a
\* directory that is itself left out.
C1_Witness ==
    /\ pc = "scanned"
    /\ scan_results.total_size > 0
    /\ scan_results.files # <<>>
    /\ \E i \in 1 .. Len(fs.entries) :
           /\ fs.entries[i].kind = "dir"
           /\ TrueSize(fs.entries[i]) > 0
           /\ TrueSize(fs.entries[i]) < threshold
           /\ ~ \E j \in 1 .. Len(scan_results.files) :
                    scan_results.files[j].name = fs.entries[i].name

----------------------------------------------------------------------------
(* C2 *)

RECURSIVE PrunedAt(_, _, _)
PrunedAt(entry, node, t) ==
    /\ NamesOf(node.files) = NamesOf(AtLeast(entry.entries, t))
    /\ \A i \in 1 .. Len(node.files) :
           /\ node.files[i].total_size >= t
           /\ IF EntryOf(entry, node.files[i]).kind = "dir"
              THEN PrunedAt(EntryOf(entry, node.files[i]), node.files[i], t)
              ELSE node.files[i].files = <<>>

\* C2: in the tree scan_directory returns, a direct entry of a directory is in
\* that directory's 'files' list if and only if its total size is >= the
\* threshold (an entry of exactly the threshold is listed); the root is
\* present whatever its total.
C2_ListedIffAtLeastThreshold ==
    pc = "scanned" =>
        /\ scan_results.name = fs.name
        /\ PrunedAt(fs, scan_results, threshold)

\* A scan that lists an entry of exactly the threshold, leaves out a smaller
\* one, under a root whose own total is below the threshold or not.
C2_Witness ==
    /\ pc = "scanned"
    /\ threshold > 0
    /\ \E i, j \in 1 .. Len(fs.entries) :
           /\ TrueSize(fs.entries[i]) = threshold
           /\ TrueSize(fs.entries[j]) < threshold
           /\ TrueSize(fs.entries[j]) > 0
    /\ \E i \in 1 .. Len(scan_results.files) :
           scan_results.files[i].total_size = threshold

----------------------------------------------------------------------------
(* C3 *)

\* C3: for thresholds T1 < T2, the nodes (by path from the root) of the tree
\* scan_directory returns for T2 are among those of the tree it returns for T1.
C3_Monotone ==
    pc = "scanned" =>
        \A t2 \in Thresholds :
            t2 > threshold =>
                NodePaths(scan_directory(fs, t2).node, <<>>)
                    \subseteq NodePaths(scan_results, <<>>)

\* A scan for which a higher threshold drops some nodes and keeps others
\* below the root.
C3_Witness ==
    /\ pc = "scanned"
    /\ \E t2 \in Thresholds :
           /\ t2 > threshold
           /\ NodePaths(scan_directory(fs, t2).node, <<>>)
                  # NodePaths(scan_results, <<>>)
           /\ Cardinality(NodePaths(scan_directory(fs, t2).node, <<>>)) > 2

----------------------------------------------------------------------------
(* C4 *)

IsBlank(line) == line.name = ""

\* Lines i < j of the report are lines of two children of the same node.
SiblingLines(i, j) ==
    /\ i < j
    /\ ~ IsBlank(log_file[i])
    /\ ~ IsBlank(log_file[j])
    /\ log_file[i].indent = log_file[j].indent
    /\ \A k \in i .. j :
           IsBlank(log_file[k]) \/ log_file[k].indent >= log_file[i].indent

\* C4: in the report, of two children of the same node the one written first
\* has a total_size >= that of the one written later, at every depth.  (Every
\* total of the explored trees is below 1000, so a line shows it in bytes.)
C4_SiblingsDescending ==
    (pc = "done" /\ exit_status = 0) =>
        \A i, j \in 1 .. Len(log_file) :
            SiblingLines(i, j) =>
                /\ log_file[i].size.unit = "bytes"
                /\ log_file[j].size.unit = "bytes"
                /\ log_file[i].size.value >= log_file[j].size.value

\* A report with two children of a nested directory that the listing gives
\* in ascending order, both listed.
C4_Witness ==
    /\ pc = "done"
    /\ exit_status = 0
    /\ \E i \in 1 .. Len(fs.entries) :
           LET d == fs.entries[i] IN
           /\ d.kind = "dir"
           /\ Len(d.entries) >= 2
           /\ TrueSize(d.entries[1]) >= threshold
           /\ TrueSize(d.entries[1]) < TrueSize(d.entries[2])
    /\ \E i, j \in 1 .. Len(log_file) :
           SiblingLines(i, j) /\ log_file[i].indent = 2

----------------------------------------------------------------------------
(* C5 *)

IsDenied(entry) == entry.kind = "dir" /\ entry.err = "PermissionError"

\* The tree with every directory below the root whose listing is denied
\* replaced by an empty directory that can be listed.
RECURSIVE AsEmpty(_)
AsEmpty(entry) ==
    [entry EXCEPT
        !.err = IF IsDenied(entry) THEN "none" ELSE entry.err,
        !.entries = [i \in 1 .. Len(entry.entries) |-> AsEmpty(entry.entries[i])]]

DeniedAsEmpty(root) ==
    [root EXCEPT
        !.entries = [i \in 1 .. Len(root.entries) |-> AsEmpty(root.entries[i])]]

HasDeniedBelow(root) == \E e \in AllEntries(root) \ {root} : IsDenied(e)

\* No call fails on the tree except listings denied below the root.
OnlyDeniedBelow(root) ==
    /\ root.err = "none"
    /\ \A e \in AllEntries(root) : e.err = "none" \/ IsDenied(e)

\* The nodes of denied directories: absent for a threshold >= 1, all zero
\* when listed.
RECURSIVE DeniedNodes(_, _, _)
DeniedNodes(entry, node, t) ==
    \A i \in 1 .. Len(entry.entries) :
        LET e == entry.entries[i]
            listed == {j \in 1 .. Len(node.files) : node.files[j].name = e.name}
        IN  IF IsDenied(e)
            THEN /\ t >= 1 => listed = {}
                 /\ \A j \in listed :
                        node.files[j] = [name |-> e.name, files |-> <<>>,
                                         num_files |-> 0, total_size |-> 0]
            ELSE \A j \in listed : DeniedNodes(e, node.files[j], t)

\* C5: when the listing of a directory below the root fails with a permission
\* error, the scan does not fail for it; the directory's node has total_size
\* 0 and num_files 0, is in no 'files' list for a threshold >= 1, and the
\* result is the one of the same tree with that directory empty.
C5_DeniedIsEmpty ==
    (pc # "start" /\ HasDeniedBelow(fs)) =>
        /\ OnlyDeniedBelow(fs) =>
               (pc \in {"scanned", "done"} /\ raised = "none" /\ exit_status # 1)
        /\ pc = "scanned" =>
               /\ scan_results = scan_directory(DeniedAsEmpty(fs), threshold).node
               /\ DeniedNodes(fs, scan_results, threshold)

\* A completed scan over a denied directory with a sibling that counts.
C5_Witness ==
    /\ pc = "scanned"
    /\ threshold >= 1
    /\ HasDeniedBelow(fs)
    /\ scan_results.total_size >= threshold
    /\ scan_results.files # <<>>
    /\ \E i \in 1 .. Len(fs.entries) :
           /\ fs.entries[i].kind = "dir"
           /\ fs.entries[i].err = "none"
           /\ \E j \in 1 .. Len(fs.entries[i].entries) :
                  IsDenied(fs.entries[i].entries[j])

----------------------------------------------------------------------------
(* C6 *)

\* C6: a scan fails only because of the root path: when the root can be
\* listed, no failure of a listing or of a size lookup below it makes main
\* raise or return non-zero.
C6_OnlyRootFails ==
    (pc \in {"done", "crashed"} /\ fs.err = "none") =>
        (exit_status = 0 /\ raised = "none")

----------------------------------------------------------------------------
(* C7 *)

\* C7: a root that cannot be listed is fatal: main returns 0 only when the
\* root could be listed, and when the root does not exist or its listing is
\* denied, main returns non-zero and writes no report.  (That main returns 0
\* whenever the root can be listed is the failure-free case of C6 and is
\* stated there.)
C7_RootFailureFatal ==
    pc \in {"done", "crashed"} =>
        /\ exit_status = 0 => fs.err = "none"
        /\ fs.err \in {"FileNotFoundError", "PermissionError"} =>
               (exit_status # 0 /\ log_file = <<>>)

----------------------------------------------------------------------------
(* C8 *)

RECURSIVE NodeCount(_), NodeCountOf(_, _)
NodeCount(node) == 1 + NodeCountOf(node.files, Len(node.files))
NodeCountOf(files, n) ==
    IF n = 0 THEN 0 ELSE NodeCountOf(files, n - 1) + NodeCount(files[n])

\* C8: the report has exactly one line per node of the tree, none of them
\* blank, each ending in ' (1 file)', ' (N files)' with N > 1, or nothing.
C8_OneLinePerNode ==
    (pc = "done" /\ exit_status = 0) =>
        /\ Len(log_file) = NodeCount(scan_results)
        /\ \A i \in 1 .. Len(log_file) :
               /\ ~ IsBlank(log_file[i])
               /\ \/ log_file[i].count = 0 /\ log_file[i].word = ""
                  \/ log_file[i].count = 1 /\ log_file[i].word = "file"
                  \/ log_file[i].count > 1 /\ log_file[i].word = "files"

----------------------------------------------------------------------------
(* C9 *)

RECURSIVE CountsAgree(_, _)
CountsAgree(entry, node) ==
    IF entry.kind = "dir"
    THEN /\ node.num_files = FileCount(entry)
         /\ \A i \in 1 .. Len(node.files) :
                /\ HasEntry(entry, node.files[i])
                /\ CountsAgree(EntryOf(entry, node.files[i]), node.files[i])
    ELSE /\ node.num_files = 0
         /\ node.files = <<>>
         /\ node.total_size = entry.size

\* C9: in the tree scan_directory returns, num_files of a directory node is
\* the number of files anywhere under the directory, listed or not; a node
\* made for a file has num_files 0, no children and the file's own size.
C9_FileCounts == pc = "scanned" => CountsAgree(fs, scan_results)

\* A scan with a listed file and, in a directory that is left out, a file
\* that is counted all the same.
C9_Witness ==
    /\ pc = "scanned"
    /\ scan_results.num_files >= 2
    /\ \E i \in 1 .. Len(scan_results.files) :
           /\ EntryOf(fs, scan_results.files[i]).kind = "file"
           /\ scan_results.files[i].num_files = 0
    /\ \E i \in 1 .. Len(fs.entries) :
           /\ fs.entries[i].kind = "dir"
           /\ FileCount(fs.entries[i]) >= 1
           /\ TrueSize(fs.entries[i]) < threshold

----------------------------------------------------------------------------
(* C10 *)

\* Number of decimal digits of a byte count.
RECURSIVE DigitsOf(_)
DigitsOf(k) == IF k < 10 THEN 1 ELSE 1 + DigitsOf(k \div 10)
Digits(n) == IF n.hi = 0 THEN DigitsOf(n.lo) ELSE 6 + DigitsOf(n.hi)

\* 100 * value is within half a hundredth of n / unit, for unit / 100 = d
\* (units up to MB, where n is below 10^9) or unit / 100 = d * 10^6.
WithinHalfLo(n, value, d) ==
    LET diff == value * d - (n.hi * 1000000 + n.lo) IN
    2 * diff <= d /\ 2 * diff >= 0 - d

WithinHalfHi(n, value, d) ==
    LET diff == value * d - n.hi IN
    /\ 2 * diff <= d
    /\ 2 * diff > 0 - d \/ (2 * diff = 0 - d /\ n.lo = 0)

\* C10: storage_repr picks the unit by decimal boundaries: bytes (the raw
\* count) iff n < 1000, KB iff 1000 <= n < 10^6, MB iff 10^6 <= n < 10^9,
\* GB iff 10^9 <= n < 10^12, TB iff n >= 10^12; the number shown is n
\* divided by the unit (to two decimals), and is at least 1.
C10_DecimalUnits ==
    (pc = "repr" /\ repr_out # NoRepr) =>
        LET d == Digits(num_bytes) IN
        /\ repr_out.unit = "bytes" <=> d <= 3
        /\ repr_out.unit = "KB" <=> (d >= 4 /\ d <= 6)
        /\ repr_out.unit = "MB" <=> (d >= 7 /\ d <= 9)
        /\ repr_out.unit = "GB" <=> (d >= 10 /\ d <= 12)
        /\ repr_out.unit = "TB" <=> d >= 13
        /\ repr_out.unit = "bytes" =>
               (num_bytes.hi = 0 /\ repr_out.value = num_bytes.lo)
        /\ repr_out.unit # "bytes" => repr_out.value >= 100
        /\ repr_out.unit = "KB" => WithinHalfLo(num_bytes, repr_out.value, 10)
        /\ repr_out.unit = "MB" => WithinHalfLo(num_bytes, repr_out.value, 10000)
        /\ repr_out.unit = "GB" => WithinHalfHi(num_bytes, repr_out.value, 10)
        /\ repr_out.unit = "TB" => WithinHalfHi(num_bytes, repr_out.value, 10000)

\* Formatted counts on both sides of a unit boundary: 999,999 bytes shown in
\* KB (as 1000.0) and 10^12 bytes shown in TB (as 1.0).
C10_Witness ==
    /\ pc = "repr"
    /\ \/ num_bytes = Big(0, 999999) /\ repr_out = [unit |-> "KB", value |-> 100000]
       \/ num_bytes = Big(1000000, 0) /\ repr_out = [unit |-> "TB", value |-> 100]

----------------------------------------------------------------------------
(* C11 *)

\* The orders in which the n entries of a listing can be given.
Orderings(n) ==
    {p \in [1 .. n -> 1 .. n] : \A i, j \in 1 .. n : i # j => p[i] # p[j]}

\* The trees that differ from a tree only in the order of the listings.
RECURSIVE Reordered(_), ReorderedEach(_, _)
Reordered(entry) ==
    {[entry EXCEPT !.entries = [i \in 1 .. Len(es) |-> es[p[i]]]] :
         es \in ReorderedEach(entry.entries, Len(entry.entries)),
         p \in Orderings(Len(entry.entries))}

ReorderedEach(es, n) ==
    IF n = 0 THEN {<<>>}
    ELSE {Append(s, e) : s \in ReorderedEach(es, n - 1), e \in Reordered(es[n])}

\* Path, total_size and num_files of every node of a result tree.
RECURSIVE NodeFacts(_, _)
NodeFacts(node, prefix) ==
    LET here == Append(prefix, node.name) IN
    {<<here, node.total_size, node.num_files>>}
        \cup UNION {NodeFacts(node.files[i], here) : i \in 1 .. Len(node.files)}

\* No two children of any node of a result tree have the same total_size.
NoTies(node) ==
    \A n \in AllNodes(node) :
        \A i, j \in 1 .. Len(n.files) :
            i # j => n.files[i].total_size # n.files[j].total_size

LinesOf(lines) == {lines[i] : i \in 1 .. Len(lines)}

\* C11 as stated: whatever the order in which each directory lists its
\* entries, the scan gives the same totals and file counts on every node and
\* print_scan_results writes the identical sequence of lines.
C11_OrderIndependent ==
    (pc = "done" /\ exit_status = 0) =>
        \A g \in Reordered(fs) :
            LET r == scan_directory(g, threshold) IN
            /\ r.exc = "none"
            /\ NodeFacts(r.node, <<>>) = NodeFacts(scan_results, <<>>)
            /\ print_scan_results(r.node, 0) = log_file

\* C11 amended: whatever the order of the listings, the scan gives the same
\* totals and file counts on every node and the report holds the same lines;
\* the lines come in the same order whenever no two listed children of a
\* node have the same total_size.
C11_OrderIndependentUpToTies ==
    (pc = "done" /\ exit_status = 0) =>
        \A g \in Reordered(fs) :
            LET r == scan_directory(g, threshold)
                lines == print_scan_results(r.node, 0)
            IN  /\ r.exc = "none"
                /\ NodeFacts(r.node, <<>>) = NodeFacts(scan_results, <<>>)
                /\ Len(lines) = Len(log_file)
                /\ LinesOf(lines) = LinesOf(log_file)
                /\ NoTies(scan_results) => lines = log_file

\* A report of a tree without ties in which a nested directory and the root
\* each list two entries in ascending order, so that another order of the
\* listings is a different input with the same report.
C11_Witness ==
    /\ pc = "done"
    /\ exit_status = 0
    /\ NoTies(scan_results)
    /\ Len(scan_results.files) >= 2
    /\ TrueSize(fs.entries[1]) < TrueSize(fs.entries[2])
    /\ \E i \in 1 .. Len(scan_results.files) :
           Len(scan_results.files[i].files) >= 2
    /\ Cardinality(Reordered(fs)) >= 4

----------------------------------------------------------------------------
(* C12 *)

\* The line of the parent of the node of line i: the nearest line before it
\* that is indented one unit less.
ParentLine(i) ==
    CHOOSE k \in 1 .. i - 1 :
        /\ ~ IsBlank(log_file[k])
        /\ log_file[k].indent = log_file[i].indent - 1
        /\ \A m \in k + 1 .. i - 1 :
               IsBlank(log_file[m]) \/ log_file[m].indent # log_file[i].indent - 1

HasParentLine(i) ==
    \E k \in 1 .. i - 1 :
        ~ IsBlank(log_file[k]) /\ log_file[k].indent = log_file[i].indent - 1

\* The names from the root's line down to line i, following parent lines.
RECURSIVE LinePath(_)
LinePath(i) ==
    IF log_file[i].indent = 0 \/ ~ HasParentLine(i) THEN <<log_file[i].name>>
    ELSE Append(LinePath(ParentLine(i)), log_file[i].name)

\* The node of a result tree at a path that starts with the root's name.
RECURSIVE NodeAt(_, _)
NodeAt(node, path) ==
    IF Len(path) <= 1 THEN node
    ELSE NodeAt(CHOOSE c \in {node.files[i] : i \in 1 .. Len(node.files)} :
                    c.name = path[2],
                Tail(path))

PositionOf(files, name) == CHOOSE i \in 1 .. Len(files) : files[i].name = name

\* C12: two children of the same node with the same total_size are written
\* in the order in which scan_directory appended them to the 'files' list.
C12_TiesInDiscoveryOrder ==
    (pc = "done" /\ exit_status = 0) =>
        LET found == scan_directory(fs, threshold).node IN
        \A i, j \in 1 .. Len(log_file) :
            (SiblingLines(i, j) /\ log_file[i].size = log_file[j].size) =>
                LET parent == NodeAt(found, LinePath(ParentLine(i))) IN
                PositionOf(parent.files, log_file[i].name)
                    < PositionOf(parent.files, log_file[j].name)

\* A report of three files listed with sizes s, s' > s, s: the sort moves the
\* middle one to the front and the two equal ones keep their order.
C12_Witness ==
    /\ pc = "done"
    /\ exit_status = 0
    /\ Len(fs.entries) = 3
    /\ Len(scan_results.files) = 3
    /\ TrueSize(fs.entries[1]) = TrueSize(fs.entries[3])
    /\ TrueSize(fs.entries[1]) < TrueSize(fs.entries[2])
    /\ \E i, j \in 1 .. Len(log_file) :
           /\ SiblingLines(i, j)
           /\ log_file[i].size = log_file[j].size
           /\ log_file[i].name = fs.entries[1].name
           /\ log_file[j].name = fs.entries[3].name

----------------------------------------------------------------------------
(* C13 *)

\* The indices of the lines of the report that are not blank, in order.
RECURSIVE NodeLines(_)
NodeLines(n) ==
    IF n = 0 THEN <<>>
    ELSE IF IsBlank(log_file[n]) THEN NodeLines(n - 1)
         ELSE Append(NodeLines(n - 1), n)

\* Path and depth of the nodes of a result tree in pre-order: a node, then
\* the whole subtree of each child in the order of its 'files' list.
RECURSIVE PreOrder(_, _), PreOrderOf(_, _, _)
PreOrder(node, prefix) ==
    LET here == Append(prefix, node.name) IN
    <<[path |-> here, depth |-> Len(prefix)]>> \o PreOrderOf(node.files, 1, here)

PreOrderOf(files, i, prefix) ==
    IF i > Len(files) THEN <<>>
    ELSE PreOrder(files[i], prefix) \o PreOrderOf(files, i + 1, prefix)

\* C13: the report is the tree in pre-order with indentation by depth: the
\* root's line is first with no indentation, a node's line is indented by its
\* depth, one unit more than its parent's line, and the lines of a child's
\* subtree all come before the line of its next sibling.  (The line of a
\* node is one that names it; the parent of a line is read off the
\* indentation alone.)
C13_PreOrderIndented ==
    (pc = "done" /\ exit_status = 0) =>
        LET at == NodeLines(Len(log_file))
            nodes == PreOrder(scan_results, <<>>)
        IN  /\ Len(at) = Len(nodes)
            /\ at[1] = 1
            /\ log_file[1].indent = 0
            /\ \A k \in 1 .. Len(at) :
                   /\ log_file[at[k]].indent = nodes[k].depth
                   /\ k > 1 => HasParentLine(at[k])
                   /\ LinePath(at[k]) = nodes[k].path

\* A report in which a line two units deep is followed by a line one unit
\* deep: a child's subtree, then its next sibling.
C13_Witness ==
    /\ pc = "done"
    /\ exit_status = 0
    /\ \E i, j \in 1 .. Len(log_file) :
           /\ i < j
           /\ log_file[i].indent = 2
           /\ log_file[j].indent = 1
           /\ ~ IsBlank(log_file[j])

----------------------------------------------------------------------------
(* C14 *)

\* The entries below an entry that the listings show, each with its path
\* from the root (prefix is the path of the entry itself).
RECURSIVE EntriesBelow(_, _)
EntriesBelow(entry, prefix) ==
    IF entry.kind = "file" \/ entry.err # "none" THEN {}
    ELSE UNION {
           LET e == entry.entries[i]
               here == Append(prefix, e.name)
           IN  {[path |-> here, entry |-> e]} \cup EntriesBelow(e, here)
           : i \in 1 .. Len(entry.entries) }

\* C14: every file or directory below the root, at any depth, whose total
\* size is >= the threshold has its node in the tree scan_directory returns,
\* reachable from the root through 'files' lists; a directory whose entries
\* are each below the threshold while their sum is not is listed with an
\* empty 'files' list.
C14_QualifyingReachable ==
    pc = "scanned" =>
        \A x \in EntriesBelow(fs, <<fs.name>>) :
            TrueSize(x.entry) >= threshold =>
                /\ x.path \in NodePaths(scan_results, <<>>)
                /\ NodeAt(scan_results, x.path).total_size = TrueSize(x.entry)
                /\ (\A i \in 1 .. Len(x.entry.entries) :
                        TrueSize(x.entry.entries[i]) < threshold)
                       => NodeAt(scan_results, x.path).files = <<>>

\* A scan that lists, two levels below the root, a directory of two files
\* that are each below the threshold and together reach it.
C14_Witness ==
    /\ pc = "scanned"
    /\ \E x \in EntriesBelow(fs, <<fs.name>>) :
           /\ Len(x.path) = 3
           /\ x.entry.kind = "dir"
           /\ Len(x.entry.entries) = 2
           /\ TrueSize(x.entry.entries[1]) < threshold
           /\ TrueSize(x.entry.entries[2]) < threshold
           /\ TrueSize(x.entry) >= threshold
           /\ x.path \in NodePaths(scan_results, <<>>)
           /\ NodeAt(scan_results, x.path).files = <<>>

====
